---- MODULE Spec2Model ----
(***************************************************************************)
(* Model of extract.py: fetch one page, resolve each wikitable's country  *)
(* and subdivision from the preceding h2/h3 headings, normalise the       *)
(* table, aggregate the surviving tables and write one CSV file.          *)
(*                                                                         *)
(* Conventions.                                                            *)
(*  - A text (Python str) is a sequence of tokens; the token " " is one   *)
(*    whitespace character, every other token is an opaque run of         *)
(*    non-whitespace characters.  The empty text is << >>.                 *)
(*  - An optional value (Python None or a value) is << >> or << v >>.     *)
(*  - A node of the page is referred to by its index in page.nodes;       *)
(*    index 0 is None.                                                     *)
(*  - Library behaviour (BeautifulSoup 4, pandas 1.x/2.x with the lxml    *)
(*    flavour) is modelled where the script calls it: Tag.__eq__ compares *)
(*    markup, read_html returns stripped non-empty strings or NaN,        *)
(*    astype(str) renders NaN as "nan" and pd.NA as "<NA>", to_csv        *)
(*    renders a missing value as the empty field.                         *)
(***************************************************************************)
EXTENDS Integers, Sequences, FiniteSets, TLC

VARIABLES
    pc,          \* position of main(): "fetch", "locate", "loop", "done", "failed"
    page,        \* the document behind URL: [content, nodes]
    it,          \* number of iterations of the for loop completed
    h2,          \* local h2 of main() (node index, 0 = None / unset)
    country,     \* local country (optional text)
    subdivision, \* local subdivision (optional text)
    frames,      \* local frames
    csv,         \* the output file: << >> (absent) or << [header, rows] >>
    err          \* the unhandled exception that ended the run, "" if none

vars == <<pc, page, it, h2, country, subdivision, frames, csv, err>>

(***************************************************************************)
(* Bounds of the explored inputs.                                          *)
(***************************************************************************)
MaxNodes == 4    \* longest heading/table sequence of a page
MaxRows == 2     \* most data rows of a generated table

(***************************************************************************)
(* Texts.                                                                  *)
(***************************************************************************)
T(s) == <<s>>

None == << >>
Some(v) == <<v>>

RECURSIVE LStrip(_)
LStrip(s) == IF s = << >> THEN s
             ELSE IF Head(s) = " " THEN LStrip(Tail(s)) ELSE s

RECURSIVE RStrip(_)
RStrip(s) == IF s = << >> THEN s
             ELSE IF s[Len(s)] = " " THEN RStrip(SubSeq(s, 1, Len(s) - 1)) ELSE s

\* str.strip()
Strip(s) == RStrip(LStrip(s))

\* Tag.get_text(strip=True): the text nodes, each stripped, joined.
RECURSIVE GetTextStrip(_)
GetTextStrip(nodes) ==
    IF nodes = << >> THEN << >>
    ELSE Strip(Head(nodes)) \o GetTextStrip(Tail(nodes))

(***************************************************************************)
(* Constants of the script.                                                *)
(***************************************************************************)
NON_COUNTRY_H2 ==
    { T("See also"), T("References"), T("Further reading"),
      T("External links"), T("Notes"), T("Citations") }

expected ==
    << T("Title"), T("Author(s)"), T("Year published"), T("Year banned"),
       T("Year unbanned"), T("Type"), T("Notes") >>

first ==
    << T("Country"), T("Subdivision"), T("Title"), T("Author(s)"),
       T("Year published"), T("Year banned"), T("Year unbanned"),
       T("Type"), T("Notes") >>

\* The dict ren of normalize_colnames: ren.get(c, c).
ren(c) ==
    CASE c = <<"Title", " ">>          -> T("Title")
      [] c = T("Title")                -> T("Title")
      [] c = T("Author(s)")            -> T("Author(s)")
      [] c = T("Authors")              -> T("Author(s)")
      [] c = T("Year published")       -> T("Year published")
      [] c = T("Year of publication")  -> T("Year published")
      [] c = T("Publication year")     -> T("Year published")
      [] c = T("Year banned")          -> T("Year banned")
      [] c = T("Year unbanned")        -> T("Year unbanned")
      [] c = T("Type")                 -> T("Type")
      [] c = T("Notes")                -> T("Notes")
      [] c = T("Reason")               -> T("Notes")
      [] c = T("Reasons")              -> T("Notes")
      [] c = T("Publisher")            -> T("Publisher")
      [] c = T("Language")             -> T("Language")
      [] c = T("Genre")                -> T("Genre")
      [] c = T("Country")              -> T("Country of origin")
      [] OTHER                         -> c

(***************************************************************************)
(* Cells of a DataFrame: a float NaN, pd.NA, or a str.                     *)
(***************************************************************************)
NaN == [k |-> "nan", s |-> << >>]
NA == [k |-> "NA", s |-> << >>]
Str(s) == [k |-> "str", s |-> s]

IsMissing(c) == c.k \in {"nan", "NA"}

(***************************************************************************)
(* The page: markup of headings and tables.                                *)
(*  heading: [kind, nodes, span]  nodes = the text nodes under the tag,    *)
(*           span = the position of the one inside span.mw-headline, or 0  *)
(*  table:   [kind, caption, header, body]  header = the th row (a name,   *)
(*           or the parts of a stacked header), body = the td rows         *)
(***************************************************************************)
Heading(kind, nodes, span) ==
    [kind |-> kind, nodes |-> nodes, span |-> span,
     caption |-> FALSE, header |-> << >>, body |-> << >>]

Table(caption, header, body) ==
    [kind |-> "table", nodes |-> << >>, span |-> 0,
     caption |-> caption, header |-> header, body |-> body]

Name(s) == [tuple |-> FALSE, parts |-> << T(s) >>]
Stacked(parts) == [tuple |-> TRUE, parts |-> parts]

H2Canada == Heading("h2", << T("Canada"), T("[edit]") >>, 1)
H2France == Heading("h2", << <<" ", "France", " ">> >>, 0)
H2References == Heading("h2", << <<"References", " ">>, T("[edit]") >>, 1)
H2Empty == Heading("h2", << >>, 0)
H3Quebec == Heading("h3", << <<" ", "Quebec">> >>, 0)

H2Markups == {H2Canada, H2France, H2References, H2Empty}
H3Markups == {H3Quebec}

\* Sample tables of the pages that vary the heading structure.
TblNoText == Table(FALSE, << >>, << >>)
TblCaptionOnly == Table(TRUE, << >>, << >>)
TblBooks ==
    Table(FALSE, << Name("Title"), Name("Publisher") >>,
          << << Str(T("a")), Str(T("p")) >> >>)
TblHeaderOnly ==
    Table(FALSE, << Name("Genre"), Name("Publisher"), Name("Title") >>, << >>)
TblGenres ==
    Table(FALSE, << Name("Genre"), Name("Title") >>,
          << << Str(T("g")), Str(T("b")) >> >>)

SampleTables == {TblNoText, TblCaptionOnly, TblBooks, TblHeaderOnly, TblGenres}

\* Header rows of the generated tables.
HeaderRows ==
    { << Name("Title") >>,
      << Name("Notes") >>,
      << Name("Title"), Name("Notes") >>,
      << Name("Reason"), Name("Notes") >>,
      << Name("Authors"), Name("Title") >>,
      << Name("Subdivision"), Name("Title") >>,
      << Name("Country"), Name("Title") >>,
      << Stacked(<< << >>, T("Title") >>), Stacked(<< T("Years"), T("Year banned") >>) >> }

\* What read_html can return in a cell: NaN for an empty cell, else a
\* stripped non-empty string.
SourceCells == {NaN, Str(T("a"))}

\* The rows read_html keeps: a row of one empty cell is a blank line and is
\* skipped by the parser, a longer row is kept even when every cell is empty.
SourceRows(n) ==
    IF n = 1 THEN { <<c>> : c \in SourceCells \ {NaN} } ELSE [1..n -> SourceCells]

Bodies(n) == UNION { [1..m -> SourceRows(n)] : m \in 0..MaxRows }

GenTables ==
    UNION { { Table(FALSE, h, b) : b \in Bodies(Len(h)) } : h \in HeaderRows }

NodeChoices == H2Markups \cup H3Markups \cup SampleTables

\* Pages that vary the heading structure.
DocPages ==
    { [content |-> TRUE, nodes |-> ns] :
        ns \in UNION { [1..n -> NodeChoices] : n \in 0..MaxNodes } }

\* Pages that vary the content of one table under one country section.
TabPages ==
    { [content |-> TRUE, nodes |-> pre \o <<t>>] :
        pre \in { <<H2Canada>>, <<H2Canada, H3Quebec>> }, t \in GenTables }

\* A page without the #mw-content-text .mw-parser-output container.
NoBodyPage == [content |-> FALSE, nodes |-> << >>]

Pages == DocPages \cup TabPages \cup {NoBodyPage}

(***************************************************************************)
(* BeautifulSoup.                                                          *)
(***************************************************************************)
Node(i) == page.nodes[i]

\* tag.find_previous(name): the nearest node before i of that kind, or None.
find_previous(i, name) ==
    LET S == { j \in 1..(i - 1) : Node(j).kind = name }
    IN  IF S = {} THEN 0 ELSE CHOOSE j \in S : \A m \in S : m <= j

\* Tag.__eq__: same name, attributes and contents; None equals only None.
TagEq(a, b) ==
    IF a = 0 \/ b = 0 THEN a = b ELSE Node(a) = Node(b)

\* content.select("table.wikitable"), in document order.
RECURSIVE SelectFrom(_)
SelectFrom(i) ==
    IF i > Len(page.nodes) THEN << >>
    ELSE (IF Node(i).kind = "table" THEN <<i>> ELSE << >>) \o SelectFrom(i + 1)

Wikitables == SelectFrom(1)

\* get_headline_text without the preference for the mw-headline span: the
\* text of the whole heading, edit link included.
get_headline_text_whole_heading(h) ==
    IF h = 0 THEN None
    ELSE Some(Strip(GetTextStrip(Node(h).nodes)))

get_headline_text(h) ==
    IF h = 0 THEN None
    ELSE LET n == Node(h)
         IN  Some(Strip(IF n.span # 0 THEN Strip(n.nodes[n.span])
                        ELSE GetTextStrip(n.nodes)))

\* "not country or country in NON_COUNTRY_H2"
IsRejected(c) ==
    IF c = None THEN TRUE
    ELSE IF c[1] = << >> THEN TRUE
    ELSE c[1] \in NON_COUNTRY_H2

\* Lines 71-77: the subdivision of table tbl whose country heading is hd.
ResolveSubdivision(tbl, hd) ==
    LET h3 == find_previous(tbl, "h3")
    IN  IF h3 # 0 /\ TagEq(find_previous(h3, "h2"), hd)
        THEN get_headline_text(h3)
        ELSE None

(***************************************************************************)
(* pandas.  A DataFrame is [cols, rows]: the column labels in order (a     *)
(* label may occur twice) and the rows, each a sequence of cells aligned   *)
(* with cols.                                                              *)
(***************************************************************************)
Frame(cols, rows) == [cols |-> cols, rows |-> rows]

Range(s) == { s[j] : j \in 1..Len(s) }

HasDuplicates(cols) ==
    \E a, b \in 1..Len(cols) : a # b /\ cols[a] = cols[b]

\* Position of the first column labelled c.
ColIndex(cols, c) == CHOOSE j \in 1..Len(cols) : cols[j] = c /\ \A m \in 1..(j - 1) : cols[m] # c

\* pd.read_html(str(tbl), flavor="lxml")[0].
\*  - a table without any text matches no table: ValueError;
\*  - a table with text but no row parses to no frame, read_html returns an
\*    empty list and [0] raises IndexError;
\*  - otherwise the frame of the header row and the data rows.
ReadHtml(tbl) ==
    LET n == Node(tbl)
    IN  IF n.header = << >> /\ n.body = << >>
        THEN [raises |-> IF n.caption THEN "IndexError" ELSE "ValueError",
              df |-> Frame(<< >>, << >>)]
        ELSE [raises |-> "", df |-> Frame(n.header, n.body)]

\* next((x for x in c if x and x != ""), c[-1])
RECURSIVE FirstNonEmpty(_, _)
FirstNonEmpty(parts, last) ==
    IF parts = << >> THEN last
    ELSE IF Head(parts) # << >> THEN Head(parts)
    ELSE FirstNonEmpty(Tail(parts), last)

normalize_one(c) ==
    LET picked == IF c.tuple THEN FirstNonEmpty(c.parts, c.parts[Len(c.parts)])
                  ELSE c.parts[1]
    IN  ren(Strip(picked))

normalize_colnames(cols) == [j \in 1..Len(cols) |-> normalize_one(cols[j])]

\* df[col] = value, for a label that is not yet a column.
AddColumn(df, col, cell) ==
    Frame(Append(df.cols, col), [r \in 1..Len(df.rows) |-> Append(df.rows[r], cell)])

\* Lines 88-90.
RECURSIVE AddExpected(_, _)
AddExpected(df, todo) ==
    IF todo = << >> THEN df
    ELSE AddExpected(IF Head(todo) \in Range(df.cols) THEN df
                     ELSE AddColumn(df, Head(todo), NA),
                     Tail(todo))

\* df.insert(0, col, cell); raises ValueError when col is already a column.
InsertRaises(df, col) == col \in Range(df.cols)

Insert0(df, col, cell) ==
    Frame(<<col>> \o df.cols, [r \in 1..Len(df.rows) |-> <<cell>> \o df.rows[r]])

\* df.dropna(how="all")
DropNaAll(df) ==
    Frame(df.cols, SelectSeq(df.rows, LAMBDA row : \E j \in 1..Len(row) : ~IsMissing(row[j])))

\* df[c].dtype of column j: object when it holds a str or pd.NA (or no
\* value at all), float64 when every value is NaN.
Dtype(df, j) ==
    IF df.rows = << >> \/ \E r \in 1..Len(df.rows) : df.rows[r][j].k \in {"str", "NA"}
    THEN "object" ELSE "float64"

\* astype(str)
AsStr(cell) ==
    CASE cell.k = "nan" -> T("nan")
      [] cell.k = "NA"  -> T("<NA>")
      [] OTHER          -> cell.s

\* .astype(str).str.strip().replace({"nan": ""}) on one value
CleanCell(cell) ==
    LET s == Strip(AsStr(cell))
    IN  Str(IF s = T("nan") THEN << >> ELSE s)

\* Lines 98-100 (the labels are unique here).
TrimStrings(df) ==
    Frame(df.cols,
          [r \in 1..Len(df.rows) |->
              [j \in 1..Len(df.cols) |->
                  IF Dtype(df, j) = "object" THEN CleanCell(df.rows[r][j])
                  ELSE df.rows[r][j]]])

\* Line 103: df[df["Title"].astype(str).str.len() > 0]
TitleFilter(df) ==
    LET t == ColIndex(df.cols, T("Title"))
    IN  Frame(df.cols, SelectSeq(df.rows, LAMBDA row : Len(AsStr(row[t])) > 0))

\* Lines 85-94 of one iteration, given the parsed frame.
Completed(df0, ctry, subdiv) ==
    LET df1 == Frame(normalize_colnames(df0.cols), df0.rows)
        df2 == AddExpected(df1, expected)
        sub == IF subdiv # None /\ subdiv[1] # << >> THEN Str(subdiv[1]) ELSE NA
    IN  Insert0(Insert0(df2, T("Subdivision"), sub), T("Country"), Str(ctry[1]))

\* The exception lines 85-103 raise on the parsed frame, "" if none.
NormalizeRaises(df0) ==
    LET df1 == Frame(normalize_colnames(df0.cols), df0.rows)
        df2 == AddExpected(df1, expected)
    IN  IF InsertRaises(df2, T("Subdivision")) \/ InsertRaises(df2, T("Country"))
        THEN "ValueError"
        ELSE IF HasDuplicates(df2.cols) THEN "AttributeError"
        ELSE ""

\* Lines 96-103.
Cleaned(df) == TitleFilter(TrimStrings(DropNaAll(df)))

\* pd.concat(frames, ignore_index=True): the union of the labels in
\* first-seen order, a missing column filled with NaN.
RECURSIVE UnionCols(_, _)
UnionCols(fs, acc) ==
    IF fs = << >> THEN acc
    ELSE UnionCols(Tail(fs),
                   acc \o SelectSeq(Head(fs).cols, LAMBDA c : c \notin Range(acc)))

Reindex(df, cols) ==
    [r \in 1..Len(df.rows) |->
        [j \in 1..Len(cols) |->
            IF cols[j] \in Range(df.cols)
            THEN df.rows[r][ColIndex(df.cols, cols[j])] ELSE NaN]]

RECURSIVE ConcatRows(_, _)
ConcatRows(fs, cols) ==
    IF fs = << >> THEN << >>
    ELSE Reindex(Head(fs), cols) \o ConcatRows(Tail(fs), cols)

Concat(fs) ==
    LET cols == UnionCols(fs, << >>)
    IN  Frame(cols, ConcatRows(fs, cols))

\* The reordering left out: the columns stay in the order concat gave them.
OrderColumns_left_out(out) == out

\* Lines 113-115: out[first + rest]
OrderColumns(out) ==
    LET rest == SelectSeq(out.cols, LAMBDA c : c \notin Range(first))
        cols == first \o rest
    IN  Frame(cols, Reindex(out, cols))

\* to_csv(index=False): the header row, and a missing value as the empty field.
CsvField(cell) == IF IsMissing(cell) THEN << >> ELSE cell.s

ToCsv(out) ==
    [header |-> out.cols,
     rows |-> [r \in 1..Len(out.rows) |->
                  [j \in 1..Len(out.cols) |-> CsvField(out.rows[r][j])]]]

(***************************************************************************)
(* main().                                                                 *)
(***************************************************************************)
HTTPError == "HTTPError"
NoBodyError == "RuntimeError: Could not locate page body."
NoTablesError == "RuntimeError: No tables found under country sections. The page layout may have changed."

Init ==
    /\ pc = "fetch"
    /\ page \in Pages
    /\ it = 0
    /\ h2 = 0
    /\ country = None
    /\ subdivision = None
    /\ frames = << >>
    /\ csv = None
    /\ err = ""

\* Line 54: requests.get fails or raise_for_status raises.
FetchFails ==
    /\ pc = "fetch"
    /\ pc' = "failed"
    /\ err' = HTTPError
    /\ UNCHANGED <<page, it, h2, country, subdivision, frames, csv>>

\* Lines 54-55: the page is fetched and parsed.
FetchOk ==
    /\ pc = "fetch"
    /\ pc' = "locate"
    /\ UNCHANGED <<page, it, h2, country, subdivision, frames, csv, err>>

\* Lines 56-58: no content container.
BodyMissing ==
    /\ pc = "locate"
    /\ ~page.content
    /\ pc' = "failed"
    /\ err' = NoBodyError
    /\ UNCHANGED <<page, it, h2, country, subdivision, frames, csv>>

\* Lines 56-60: the container is found, frames = [].
BodyFound ==
    /\ pc = "locate"
    /\ page.content
    /\ pc' = "loop"
    /\ frames' = << >>
    /\ UNCHANGED <<page, it, h2, country, subdivision, csv, err>>

\* The table of the next iteration of the for loop.
InLoop == pc = "loop" /\ it < Len(Wikitables)
Tbl == Wikitables[it + 1]

\* Lines 65-68: the country heading is missing or is no country: continue.
SkipTable ==
    /\ InLoop
    /\ h2' = find_previous(Tbl, "h2")
    /\ country' = get_headline_text(h2')
    /\ IsRejected(country')
    /\ it' = it + 1
    /\ UNCHANGED <<pc, page, subdivision, frames, csv, err>>

\* Lines 65-83: read_html raises ValueError: continue.
SkipUnparsable ==
    /\ InLoop
    /\ h2' = find_previous(Tbl, "h2")
    /\ country' = get_headline_text(h2')
    /\ ~IsRejected(country')
    /\ subdivision' = ResolveSubdivision(Tbl, h2')
    /\ ReadHtml(Tbl).raises = "ValueError"
    /\ it' = it + 1
    /\ UNCHANGED <<pc, page, frames, csv, err>>

\* What lines 79-103 raise past the except clause for table tbl, "" if nothing.
IterationRaises(tbl) ==
    LET got == ReadHtml(tbl)
    IN  IF got.raises = "ValueError" THEN ""
        ELSE IF got.raises # "" THEN got.raises
        ELSE NormalizeRaises(got.df)

\* Lines 65-103: an exception other than read_html's ValueError ends the run.
TableRaises ==
    /\ InLoop
    /\ h2' = find_previous(Tbl, "h2")
    /\ country' = get_headline_text(h2')
    /\ ~IsRejected(country')
    /\ subdivision' = ResolveSubdivision(Tbl, h2')
    /\ IterationRaises(Tbl) # ""
    /\ pc' = "failed"
    /\ err' = IterationRaises(Tbl)
    /\ UNCHANGED <<page, it, frames, csv>>

\* The iteration with a record set of zero rows dropped instead of appended.
AppendTable_unless_empty ==
    /\ InLoop
    /\ h2' = find_previous(Tbl, "h2")
    /\ country' = get_headline_text(h2')
    /\ ~IsRejected(country')
    /\ subdivision' = ResolveSubdivision(Tbl, h2')
    /\ ReadHtml(Tbl).raises = ""
    /\ IterationRaises(Tbl) = ""
    /\ frames' = LET df == Cleaned(Completed(ReadHtml(Tbl).df, country', subdivision'))
                 IN  IF df.rows = << >> THEN frames ELSE Append(frames, df)
    /\ it' = it + 1
    /\ UNCHANGED <<pc, page, csv, err>>

\* Lines 65-105: the table is normalised, cleaned and appended.
AppendTable ==
    /\ InLoop
    /\ h2' = find_previous(Tbl, "h2")
    /\ country' = get_headline_text(h2')
    /\ ~IsRejected(country')
    /\ subdivision' = ResolveSubdivision(Tbl, h2')
    /\ ReadHtml(Tbl).raises = ""
    /\ IterationRaises(Tbl) = ""
    /\ frames' = Append(frames, Cleaned(Completed(ReadHtml(Tbl).df, country', subdivision')))
    /\ it' = it + 1
    /\ UNCHANGED <<pc, page, csv, err>>

\* The check of frames made after the output file was created.
NoTables_after_create ==
    /\ pc = "loop"
    /\ it = Len(Wikitables)
    /\ frames = << >>
    /\ csv' = Some([header |-> first, rows |-> << >>])
    /\ pc' = "failed"
    /\ err' = NoTablesError
    /\ UNCHANGED <<page, it, h2, country, subdivision, frames>>

\* Lines 107-108.
NoTables ==
    /\ pc = "loop"
    /\ it = Len(Wikitables)
    /\ frames = << >>
    /\ pc' = "failed"
    /\ err' = NoTablesError
    /\ UNCHANGED <<page, it, h2, country, subdivision, frames, csv>>

\* Lines 107-118.
WriteCsv ==
    /\ pc = "loop"
    /\ it = Len(Wikitables)
    /\ frames # << >>
    /\ csv' = Some(ToCsv(OrderColumns(Concat(frames))))
    /\ pc' = "done"
    /\ UNCHANGED <<page, it, h2, country, subdivision, frames, err>>

Next ==
    \/ FetchFails
    \/ FetchOk
    \/ BodyMissing
    \/ BodyFound
    \/ SkipTable
    \/ SkipUnparsable
    \/ TableRaises
    \/ AppendTable
    \/ NoTables
    \/ WriteCsv

Spec == Init /\ [][Next]_vars

(***************************************************************************)
(* Vocabulary of the properties, stated on the page and on the output      *)
(* without the operators of the script.                                    *)
(***************************************************************************)
\* The display text of each heading markup of the explored pages.
DisplayText(n) ==
    CASE n = H2Canada     -> T("Canada")
      [] n = H2France     -> T("France")
      [] n = H2References -> T("References")
      [] n = H2Empty      -> << >>
      [] n = H3Quebec     -> T("Quebec")

HousekeepingLabels ==
    { T("See also"), T("References"), T("Further reading"),
      T("External links"), T("Notes"), T("Citations") }

\* j is the nearest node of that kind before node i (0: there is none).
IsNearestBefore(j, i, kind) ==
    IF j = 0 THEN \A m \in 1..(i - 1) : Node(m).kind # kind
    ELSE /\ j < i
         /\ Node(j).kind = kind
         /\ \A m \in (j + 1)..(i - 1) : Node(m).kind # kind

NearestBefore(i, kind) == CHOOSE j \in 0..(i - 1) : IsNearestBefore(j, i, kind)

\* The table at node i has no country: its h2 is missing, empty or housekeeping.
HasNoCountry(i) ==
    LET hd == NearestBefore(i, "h2")
    IN  IF hd = 0 THEN TRUE
        ELSE DisplayText(Node(hd)) \in HousekeepingLabels \cup {<< >>}

TableNodes == { i \in 1..Len(page.nodes) : Node(i).kind = "table" }

\* The field of column c in row r of the written CSV.
CsvCell(r, c) == csv[1].rows[r][CHOOSE j \in 1..Len(csv[1].header) : csv[1].header[j] = c]

CsvRows == 1..Len(csv[1].rows)

(***************************************************************************)
(* C1: in every written CSV, every row has a Title of non-zero length and  *)
(* a non-empty Country.                                                    *)
(***************************************************************************)
C1_TitleAndCountryNonEmpty ==
    pc = "done" =>
        \A r \in CsvRows :
            /\ CsvCell(r, T("Title")) # << >>
            /\ CsvCell(r, T("Country")) # << >>

(***************************************************************************)
(* C2: a wikitable whose nearest preceding h2 is missing, has empty        *)
(* display text or a housekeeping label is passed over: the iteration      *)
(* for it appends nothing, does not end the run and moves on to the next   *)
(* table; and no row of the output carries such a label as its Country.    *)
(***************************************************************************)
C2_NoCountryTableSkipped ==
    /\ [][ (InLoop /\ HasNoCountry(Tbl)) =>
              (pc' = "loop" /\ it' = it + 1 /\ frames' = frames /\ csv' = csv) ]_vars
    /\ [](pc = "done" =>
              \A r \in CsvRows :
                  CsvCell(r, T("Country")) \notin HousekeepingLabels \cup {<< >>})

C2_Witness ==
    /\ pc = "done"
    /\ CsvRows # {}
    /\ \E i \in TableNodes :
          /\ HasNoCountry(i)
          /\ NearestBefore(i, "h2") # 0
          /\ \E j \in TableNodes : j > i /\ ~HasNoCountry(j)

(***************************************************************************)
(* C3: after an iteration that accepted its table, the resolved            *)
(* subdivision is the display text of the nearest preceding h3 exactly     *)
(* when the nearest h2 before that h3 is the same node as the table's h2;  *)
(* otherwise it is absent.                                                 *)
(***************************************************************************)
C3_SubdivisionByNodeIdentity ==
    (pc = "loop" /\ it > 0 /\ ~HasNoCountry(Wikitables[it])) =>
        LET i  == Wikitables[it]
            hd == NearestBefore(i, "h2")
            s  == NearestBefore(i, "h3")
        IN  subdivision =
                IF s # 0 /\ NearestBefore(s, "h2") = hd
                THEN Some(DisplayText(Node(s))) ELSE None

(***************************************************************************)
(* C4: in every written CSV, a field of a canonical column other than      *)
(* Country is either a text the source supplied (a cell of a table, the    *)
(* display text of a heading) or empty, never a placeholder text.          *)
(***************************************************************************)
SuppliedTexts ==
    { DisplayText(Node(i)) : i \in { m \in 1..Len(page.nodes) : Node(m).kind # "table" } }
    \cup UNION { UNION { { Node(i).body[r][j].s : j \in 1..Len(Node(i).body[r]) }
                         : r \in 1..Len(Node(i).body) }
                 : i \in TableNodes }

C4_MissingValuesAreEmpty ==
    pc = "done" =>
        \A r \in CsvRows : \A c \in Range(first) \ {T("Country")} :
            CsvCell(r, c) \in SuppliedTexts \cup {<< >>}

(***************************************************************************)
(* C5: the CSV file is written at most once, by the last step of a run     *)
(* that fetched the page, found the content container and went through     *)
(* every table; a run that ends with an error leaves no CSV file.          *)
(***************************************************************************)
C5_CsvWrittenOnceAtEnd ==
    /\ [](csv # None =>
              (pc = "done" /\ page.content /\ it = Len(Wikitables) /\ err = ""))
    /\ [](pc = "failed" => csv = None)
    /\ [][csv' # csv => (csv = None /\ pc = "loop" /\ pc' = "done")]_vars

C5_Witness ==
    /\ pc = "done"
    /\ csv # None
    /\ Len(csv[1].rows) > 0
    /\ Len(Wikitables) > 1

(***************************************************************************)
(* C6: a run fails only when the page cannot be fetched, the content       *)
(* container is missing or no table survived; otherwise it completes.      *)
(***************************************************************************)
C6_FailsOnlyOnFatalConditions ==
    pc = "failed" => err \in {HTTPError, NoBodyError, NoTablesError}

(***************************************************************************)
(* C7: an accepted table whose parsing fails is skipped: the iteration     *)
(* appends nothing, raises nothing and moves on to the next table.         *)
(***************************************************************************)
C7_ParseFailureSkipsTable ==
    [][ (InLoop /\ ~HasNoCountry(Tbl) /\ ReadHtml(Tbl).raises # "") =>
           (pc' = "loop" /\ it' = it + 1 /\ frames' = frames) ]_vars

(***************************************************************************)
(* C9 as stated: a page whose accepted tables all end with zero surviving  *)
(* rows fails with the 'no tables' diagnostic; no CSV with zero data rows  *)
(* is written.                                                             *)
(***************************************************************************)
C9_ZeroRowTablesDoNotSurvive ==
    pc = "done" => Len(csv[1].rows) > 0

\* The table at node i is accepted and parsed, whatever rows it keeps.
IsParsedUnderCountry(i) ==
    /\ ~HasNoCountry(i)
    /\ Node(i).header # << >>

(***************************************************************************)
(* C9 amended: a table whose rows are all dropped still counts as a        *)
(* surviving table.  Every accepted and parsed table contributes one       *)
(* record set, with or without rows; the 'no tables' diagnostic is raised  *)
(* only when no table of the page was accepted and parsed; and a run that  *)
(* reaches the end with only zero-row record sets writes a CSV of zero     *)
(* data rows.                                                              *)
(***************************************************************************)
C9_ZeroRowTablesSurvive ==
    /\ pc \in {"loop", "done"} =>
           Len(frames) = Cardinality({ k \in 1..it : IsParsedUnderCountry(Wikitables[k]) })
    /\ (pc = "failed" /\ err = NoTablesError) =>
           \A i \in TableNodes : ~IsParsedUnderCountry(i)
    /\ (pc = "done" /\ \A k \in 1..Len(frames) : frames[k].rows = << >>) =>
           (csv # None /\ csv[1].rows = << >>)

C9_Witness ==
    /\ pc = "done"
    /\ frames # << >>
    /\ \A k \in 1..Len(frames) : frames[k].rows = << >>
    /\ csv[1].rows = << >>
    /\ Len(csv[1].header) > Len(first)

\* Where label c is first seen among the surviving tables: the frame and,
\* within it, the column, as one number ordered like the pair.
FirstSeen(c) ==
    LET at == { <<k, j>> \in (1..Len(frames)) \X (1..Len(first) + Len(csv[1].header)) :
                   j <= Len(frames[k].cols) /\ frames[k].cols[j] = c }
        m  == CHOOSE x \in at : \A y \in at : x[1] < y[1] \/ (x[1] = y[1] /\ x[2] <= y[2])
    IN  m

\* Number of rows of the record sets before the k-th.
RECURSIVE RowsBefore(_)
RowsBefore(k) == IF k <= 1 THEN 0 ELSE RowsBefore(k - 1) + Len(frames[k - 1].rows)

\* The field to_csv writes for column c of row r of the k-th record set.
FrameField(k, r, c) ==
    LET at == { j \in 1..Len(frames[k].cols) : frames[k].cols[j] = c }
    IN  IF at = {} THEN << >>
        ELSE LET cell == frames[k].rows[r][CHOOSE j \in at : TRUE]
             IN  IF cell.k = "str" THEN cell.s ELSE << >>

====
